---------------------------- MODULE Spec2Model ----------------------------
(***************************************************************************)
(* Federated-learning server (src/fl_server.py): the startup check of      *)
(* main, the per-round evaluation configuration, the weighted metric       *)
(* aggregation and the centralized evaluation function, together with the  *)
(* round loop that drives them.                                            *)
(*                                                                         *)
(* Python floats are IEEE-754 binary64.  A float is modelled exactly, as   *)
(* [m, e] with value m * 2^e and m a 53-bit significand, so that rounding  *)
(* in n * a, in sum(...) and in the final division is what Python does.    *)
(* Significands are natural numbers kept as little-endian sequences of     *)
(* limbs in base 2^15 (TLC's integers are 32 bits wide).                   *)
(***************************************************************************)
EXTENDS Integers, Sequences, FiniteSets, TLC

-----------------------------------------------------------------------------
(* Natural numbers of any size: <<>> is 0, no leading zero limb.           *)

LimbBase == 2^15

Pow2(k) == 2^k

RECURSIVE Strip(_)
Strip(x) ==
    IF x = <<>> THEN <<>>
    ELSE IF x[Len(x)] = 0 THEN Strip(SubSeq(x, 1, Len(x) - 1))
    ELSE x

Big(n) == IF n = 0 THEN <<>> ELSE IF n < LimbBase THEN <<n>> ELSE <<n % LimbBase, n \div LimbBase>>

RECURSIVE MulCarry(_, _, _)
MulCarry(x, n, c) ==
    IF x = <<>> THEN Big(c)
    ELSE LET t == x[1] * n + c
         IN  <<t % LimbBase>> \o MulCarry(Tail(x), n, t \div LimbBase)

\* x * n for a small n (n < 2^15)
MulSmall(x, n) == Strip(MulCarry(x, n, 0))

RECURSIVE DivFrom(_, _, _, _, _)
DivFrom(x, d, i, r, q) ==
    IF i = 0 THEN [q |-> q, r |-> r]
    ELSE DivFrom(x, d, i - 1, (r * LimbBase + x[i]) % d,
                 <<(r * LimbBase + x[i]) \div d>> \o q)

\* quotient and remainder of x by a small d (0 < d < 2^15)
DivSmall(x, d) ==
    LET qr == DivFrom(x, d, Len(x), 0, <<>>)
    IN  [q |-> Strip(qr.q), r |-> qr.r]

RECURSIVE AddCarry(_, _, _)
AddCarry(x, y, c) ==
    IF x = <<>> /\ y = <<>> THEN Big(c)
    ELSE LET a == IF x = <<>> THEN 0 ELSE x[1]
             b == IF y = <<>> THEN 0 ELSE y[1]
             t == a + b + c
         IN  <<t % LimbBase>>
             \o AddCarry(IF x = <<>> THEN <<>> ELSE Tail(x),
                         IF y = <<>> THEN <<>> ELSE Tail(y), t \div LimbBase)

BigAdd(x, y) == Strip(AddCarry(x, y, 0))

RECURSIVE CmpFrom(_, _, _)
CmpFrom(x, y, i) ==
    IF i = 0 THEN 0
    ELSE IF x[i] < y[i] THEN -1
    ELSE IF x[i] > y[i] THEN 1
    ELSE CmpFrom(x, y, i - 1)

\* -1, 0 or 1 as x < y, x = y or x > y
BigCmp(x, y) ==
    IF Len(x) < Len(y) THEN -1
    ELSE IF Len(x) > Len(y) THEN 1
    ELSE CmpFrom(x, y, Len(x))

RECURSIVE SubBorrow(_, _, _)
SubBorrow(x, y, b) ==
    IF x = <<>> THEN <<>>
    ELSE LET s == IF y = <<>> THEN 0 ELSE y[1]
             t == x[1] - s - b
         IN  <<IF t < 0 THEN t + LimbBase ELSE t>>
             \o SubBorrow(Tail(x), IF y = <<>> THEN <<>> ELSE Tail(y),
                          IF t < 0 THEN 1 ELSE 0)

\* |x - y|
BigDist(x, y) ==
    IF BigCmp(x, y) >= 0 THEN Strip(SubBorrow(x, y, 0)) ELSE Strip(SubBorrow(y, x, 0))

RECURSIVE SmallBits(_)
SmallBits(n) == IF n = 0 THEN 0 ELSE 1 + SmallBits(n \div 2)

BitLen(x) == IF x = <<>> THEN 0 ELSE 15 * (Len(x) - 1) + SmallBits(x[Len(x)])

Zeros(k) == [i \in 1..k |-> 0]

\* x * 2^s
ShiftLeft(x, s) ==
    IF x = <<>> THEN <<>> ELSE Zeros(s \div 15) \o MulSmall(x, Pow2(s % 15))

\* floor(x / 2^s), and whether a nonzero part was dropped
ShiftRight(x, s) ==
    LET k    == s \div 15
        kept == IF k >= Len(x) THEN <<>> ELSE SubSeq(x, k + 1, Len(x))
        lost == \E i \in 1..k : i <= Len(x) /\ x[i] # 0
        qr   == DivSmall(kept, Pow2(s % 15))
    IN  [q |-> qr.q, sticky |-> lost \/ qr.r # 0]

-----------------------------------------------------------------------------
(* Python float: IEEE-754 binary64, round to nearest, ties to even.  Only  *)
(* finite values >= 0 occur; NaN is the result of numpy's 0/0.             *)

\* bits of a binary64 significand
Precision == 53

FZero == [m |-> <<>>, e |-> 0]

NaN == [m |-> <<>>, e |-> 1]

\* the float nearest to (x + f) * 2^e, where 0 <= f < 1 and f > 0 iff sticky;
\* x has more than Precision bits whenever sticky
RoundTo(x, e, sticky) ==
    IF x = <<>> THEN FZero
    ELSE LET L == BitLen(x)
         IN  IF L <= Precision
             THEN [m |-> ShiftLeft(x, Precision - L), e |-> e - (Precision - L)]
             ELSE LET s     == L - Precision
                      cut   == ShiftRight(x, s - 1)
                      half  == DivSmall(cut.q, 2)
                      up    == half.r = 1 /\ (cut.sticky \/ sticky \/ half.q[1] % 2 = 1)
                      mant  == IF up THEN BigAdd(half.q, <<1>>) ELSE half.q
                  IN  IF BitLen(mant) > Precision
                      THEN [m |-> DivSmall(mant, 2).q, e |-> e + s + 1]
                      ELSE [m |-> mant, e |-> e + s]

\* float(p / q) for integers p >= 0, q > 0: true division, correctly rounded;
\* also the float a decimal literal p/q denotes
FromRatio(p, q) ==
    LET qr == DivSmall(ShiftLeft(Big(p), 90), q)
    IN  RoundTo(qr.q, -90, qr.r # 0)

\* n * f for an int n >= 0 and a float f
FMulInt(n, f) == RoundTo(MulSmall(f.m, n), f.e, FALSE)

\* f + g
FAdd(f, g) ==
    IF f.m = <<>> THEN g
    ELSE IF g.m = <<>> THEN f
    ELSE LET lo == IF f.e < g.e THEN f.e ELSE g.e
         IN  RoundTo(BigAdd(ShiftLeft(f.m, f.e - lo), ShiftLeft(g.m, g.e - lo)), lo, FALSE)

\* f / d for a float f and an int d > 0
FDivInt(f, d) ==
    LET qr == DivSmall(ShiftLeft(f.m, 90), d)
    IN  RoundTo(qr.q, f.e - 90, qr.r # 0)

\* |f - g| <= 2^-40 * max(f, g): equal up to rounding
FClose(f, g) ==
    LET lo == IF f.e < g.e THEN f.e ELSE g.e
        a  == ShiftLeft(f.m, f.e - lo)
        b  == ShiftLeft(g.m, g.e - lo)
        hi == IF BigCmp(a, b) >= 0 THEN a ELSE b
    IN  BigCmp(ShiftLeft(BigDist(a, b), 40), hi) <= 0

-----------------------------------------------------------------------------
(* Outcome of a Python call: a returned value or a raised exception.       *)

NotCalled == [kind |-> "none", exc |-> "", accuracy |-> FZero]

Return(acc) == [kind |-> "return", exc |-> "", accuracy |-> acc]

Raise(e) == [kind |-> "raise", exc |-> e, accuracy |-> FZero]

\* a float a participant reports, written as the decimal p/q it was parsed
\* from: 0.8 is Tenths(8); FloatOf gives the binary64 value
Tenths(k) == <<k, 10>>

FloatOf(d) == FromRatio(d[1], d[2])

\* a metrics mapping {"accuracy": a}, and one without the key
Acc(a) == [k \in {"accuracy"} |-> a]

NoMetrics == [k \in {} |-> <<0, 1>>]

\* participants that can connect; at most so many answer one round
MaxClients == 3

\* (num_examples, metrics) pairs participants report
Reports ==
    { <<100, Acc(Tenths(8))>>, <<200, Acc(Tenths(9))>>, <<100, Acc(Tenths(7))>>,
      <<1, Acc(Tenths(7))>>, <<0, Acc(Tenths(8))>>, <<0, NoMetrics>>, <<100, NoMetrics>> }

ReportLists == UNION { [1..n -> Reports] : n \in 0..MaxClients }

RECURSIVE SumFrom(_, _)
\* Python's sum(xs) over ints: 0 + xs[0] + xs[1] + ...
SumFrom(xs, acc) == IF xs = <<>> THEN acc ELSE SumFrom(Tail(xs), acc + Head(xs))

RECURSIVE FSumFrom(_, _)
\* Python's sum(xs) over floats, left to right from the int 0
FSumFrom(xs, acc) == IF xs = <<>> THEN acc ELSE FSumFrom(Tail(xs), FAdd(acc, Head(xs)))

\* accuracies not weighted: sum(m["accuracy"]) / len(metrics)
weighted_average_unweighted(ms) ==
    IF \E i \in 1..Len(ms) : "accuracy" \notin DOMAIN ms[i][2]
    THEN Raise("KeyError")
    ELSE IF Len(ms) = 0
         THEN Raise("ZeroDivisionError")
         ELSE Return(FDivInt(FSumFrom([i \in 1..Len(ms) |-> FloatOf(ms[i][2]["accuracy"])],
                                      FZero), Len(ms)))

\* a guard that returns 0.0 when no examples were reported
weighted_average_guarded(ms) ==
    IF \E i \in 1..Len(ms) : "accuracy" \notin DOMAIN ms[i][2]
    THEN Raise("KeyError")
    ELSE IF SumFrom([i \in 1..Len(ms) |-> ms[i][1]], 0) = 0
         THEN Return(FZero)
         ELSE Return(FDivInt(FSumFrom([i \in 1..Len(ms) |->
                                          FMulInt(ms[i][1], FloatOf(ms[i][2]["accuracy"]))],
                                      FZero),
                             SumFrom([i \in 1..Len(ms) |-> ms[i][1]], 0)))

\* every participant weighted as the first: sum / (len(metrics) * metrics[0][0])
weighted_average_first(ms) ==
    IF \E i \in 1..Len(ms) : "accuracy" \notin DOMAIN ms[i][2]
    THEN Raise("KeyError")
    ELSE IF Len(ms) = 0 \/ ms[1][1] = 0
         THEN Raise("ZeroDivisionError")
         ELSE Return(FDivInt(FSumFrom([i \in 1..Len(ms) |->
                                          FMulInt(ms[i][1], FloatOf(ms[i][2]["accuracy"]))],
                                      FZero),
                             Len(ms) * ms[1][1]))

weighted_average(ms) ==
    IF \E i \in 1..Len(ms) : "accuracy" \notin DOMAIN ms[i][2]
    THEN Raise("KeyError")
    ELSE LET accuracies == [i \in 1..Len(ms) |-> FMulInt(ms[i][1], FloatOf(ms[i][2]["accuracy"]))]
             examples   == [i \in 1..Len(ms) |-> ms[i][1]]
         IN  IF SumFrom(examples, 0) = 0
             THEN Raise("ZeroDivisionError")
             ELSE Return(FDivInt(FSumFrom(accuracies, FZero), SumFrom(examples, 0)))

-----------------------------------------------------------------------------
(* Run parameters and the callbacks main hands to the strategy.            *)

\* rounds of the run (--rounds)
MaxRounds == 5

Clients == 1..MaxClients

\* the parsed command line: args.min_sample_size, args.min_num_clients, args.rounds
ArgSets ==
    [min_sample_size : 1..MaxClients, min_num_clients : 1..MaxClients, rounds : 1..MaxRounds]

\* str(n) for an int n >= 0, as its decimal digits
RECURSIVE Str(_)
Str(n) == IF n < 10 THEN <<n>> ELSE Str(n \div 10) \o <<n % 10>>

\* off by one: ten steps only from round five on
evaluate_config_late(rnd) == [val_steps |-> IF rnd <= 4 THEN 5 ELSE 10]

evaluate_config(rnd) == [val_steps |-> IF rnd < 4 THEN 5 ELSE 10]

\* with the defaults of --num_workers, --pin_memory, --model and --dataset
fit_config(rnd) ==
    [epoch_global |-> Str(rnd), epochs |-> Str(5), num_workers |-> Str(10),
     pin_memory |-> "False", model |-> "AE", dataset |-> "ENERGY"]

\* keys of the reference model's state_dict, in order
StateDictKeys == <<"encoder", "decoder">>

\* a parameter list whose tensors all carry the tag v: the tensors' contents
\* are opaque, the list aggregated in round v is tagged v, the initial one 0
Weights(v) == [i \in 1..Len(StateDictKeys) |-> v]

Unloaded == [loaded |-> FALSE, state_dict |-> <<>>]

\* set_weights: zip(model.state_dict().keys(), weights), then
\* load_state_dict(strict=True), which needs every key
set_weights(m, weights) ==
    IF Len(weights) < Len(StateDictKeys)
    THEN [ok |-> FALSE, model |-> m]
    ELSE [ok |-> TRUE,
          model |-> [loaded |-> TRUE,
                     state_dict |-> [i \in 1..Len(StateDictKeys) |-> weights[i]]]]

\* what pot_eval can return: the counts of the confusion matrix, as plain
\* ints or as numpy integer scalars
Confusions ==
    { [TP |-> 40, TN |-> 50, FP |-> 5, FN |-> 5], [TP |-> 0, TN |-> 0, FP |-> 0, FN |-> 0] }

NumberKinds == {"int", "numpy"}

\* (TP + TN) / (TP + TN + FP + FN): Python's int / int raises on a zero
\* divisor, numpy's gives nan (with a RuntimeWarning)
accuracy_of(result, kind) ==
    LET correct == result.TP + result.TN
        total   == result.TP + result.TN + result.FP + result.FN
    IN  IF total # 0 THEN Return(FromRatio(correct, total))
        ELSE IF kind = "int" THEN Raise("ZeroDivisionError")
        ELSE Return(NaN)

\* reports a participant sends in a run
RunReports == { <<100, Acc(Tenths(8))>>, <<0, NoMetrics>> }

\* fraction_fit = fraction_eval = 0.2, in tenths
FractionTenths == 2

\* ceil(fraction * n)
CeilFraction(n) == (FractionTenths * n + 9) \div 10

Max(a, b) == IF a > b THEN a ELSE b

\* min_fit_clients and min_eval_clients left at FedAvg's default of 2
BuildStrategyDefaults(a, weights) ==
    [min_fit_clients       |-> 2,
     min_eval_clients      |-> 2,
     min_available_clients |-> a.min_num_clients,
     initial_parameters    |-> weights]

\* FedAvg(...) as main builds it
BuildStrategy(a, weights) ==
    [min_fit_clients       |-> a.min_sample_size,
     min_eval_clients      |-> a.min_sample_size,
     min_available_clients |-> a.min_num_clients,
     initial_parameters    |-> weights]

NoStrategy ==
    [min_fit_clients |-> 0, min_eval_clients |-> 0, min_available_clients |-> 0,
     initial_parameters |-> <<>>]

NoScore == [result |-> [TP |-> 0, TN |-> 0, FP |-> 0, FN |-> 0], kind |-> "none"]

NoDispatch == [clients |-> {}, weights |-> <<>>, fit |-> <<>>, eval |-> <<>>]

-----------------------------------------------------------------------------
VARIABLES
    metrics,      \* the (num_examples, metrics) list handed to weighted_average
    aggregated,   \* outcome of weighted_average(metrics)
    pc,           \* where main, and then the round loop, stands
    args,         \* the parsed command line
    model,        \* the reference model load_model returned
    strategy,     \* the FedAvg strategy of the server
    rnd,          \* round index
    parameters,   \* GlobalModelState: the weights and the round that made them
    available,    \* participants connected to the client manager
    sampled,      \* participants sampled for the round
    dispatched,   \* what the round sent to them
    scored,       \* what pot_eval returned to the evaluate of the round
    evaluated,    \* outcome of the centralized evaluate of the round
    roundError    \* why the round was abandoned, "" if it was not

runVars == <<pc, args, model, strategy, rnd, parameters, available, sampled, dispatched,
             scored, evaluated, roundError>>

vars == <<metrics, aggregated, pc, args, model, strategy, rnd, parameters, available,
          sampled, dispatched, scored, evaluated, roundError>>

InitRun ==
    /\ pc = "start"
    /\ model = Unloaded
    /\ strategy = NoStrategy
    /\ rnd = 0
    /\ parameters = [weights |-> <<>>, round |-> 0]
    /\ available = {}
    /\ sampled = {}
    /\ dispatched = NoDispatch
    /\ scored = NoScore
    /\ evaluated = NotCalled
    /\ roundError = ""

-----------------------------------------------------------------------------
(* weighted_average on its own: every list of reports, aggregated once.    *)

InitAgg ==
    /\ metrics \in ReportLists
    /\ aggregated = NotCalled
    /\ args = [min_sample_size |-> 1, min_num_clients |-> 1, rounds |-> MaxRounds]
    /\ InitRun

\* the strategy calls evaluate_metrics_aggregation_fn on the round's reports
AggregateMetrics ==
    /\ aggregated = NotCalled
    /\ aggregated' = weighted_average(metrics)
    /\ UNCHANGED metrics
    /\ UNCHANGED runVars

NextAgg == AggregateMetrics

SpecAgg == InitAgg /\ [][NextAgg]_vars

-----------------------------------------------------------------------------
(* The run: main, then the rounds the server drives.  An exception raised  *)
(* by a callback of this file (weighted_average, evaluate) has no handler  *)
(* in it: it unwinds through start_server and ends main.                   *)

Init ==
    /\ args \in ArgSets
    /\ metrics = <<>>
    /\ aggregated = NotCalled
    /\ InitRun

\* the assertion left out
CheckArgsSkipped ==
    /\ pc = "start"
    /\ pc' = "configure"
    /\ UNCHANGED <<args, model, strategy, rnd, parameters, available, sampled, dispatched,
                   scored, evaluated, roundError, metrics, aggregated>>

\* main: assert args.min_sample_size <= args.min_num_clients
CheckArgs ==
    /\ pc = "start"
    /\ pc' = IF args.min_sample_size <= args.min_num_clients THEN "configure" ELSE "failed"
    /\ UNCHANGED <<args, model, strategy, rnd, parameters, available, sampled, dispatched,
                   scored, evaluated, roundError, metrics, aggregated>>

\* main: configure the logger, load_dataset, load_model, model_weights
LoadReference ==
    /\ pc = "configure"
    /\ model' = [loaded |-> TRUE, state_dict |-> Weights(0)]
    /\ pc' = "loaded"
    /\ UNCHANGED <<args, strategy, rnd, parameters, available, sampled, dispatched,
                   scored, evaluated, roundError, metrics, aggregated>>

\* main: SimpleClientManager, FedAvg, Server
BuildServer ==
    /\ pc = "loaded"
    /\ strategy' = BuildStrategy(args, model.state_dict)
    /\ pc' = "built"
    /\ UNCHANGED <<args, model, rnd, parameters, available, sampled, dispatched,
                   scored, evaluated, roundError, metrics, aggregated>>

\* main: start_server; the global model starts from initial_parameters
StartServer ==
    /\ pc = "built"
    /\ parameters' = [weights |-> strategy.initial_parameters, round |-> 0]
    /\ pc' = "Idle"
    /\ UNCHANGED <<args, model, strategy, rnd, available, sampled, dispatched,
                   scored, evaluated, roundError, metrics, aggregated>>

\* a participant connects (between rounds or while the round samples)
Connect ==
    /\ pc \in {"Idle", "Sampling"}
    /\ \E c \in Clients \ available : available' = available \cup {c}
    /\ UNCHANGED <<pc, args, model, strategy, rnd, parameters, sampled, dispatched,
                   scored, evaluated, roundError, metrics, aggregated>>

Disconnect ==
    /\ pc \in {"Idle", "Sampling"}
    /\ \E c \in available : available' = available \ {c}
    /\ UNCHANGED <<pc, args, model, strategy, rnd, parameters, sampled, dispatched,
                   scored, evaluated, roundError, metrics, aggregated>>

\* Idle -> Sampling: wait_for_min_clients(min_available) has succeeded
StartRound ==
    /\ pc = "Idle"
    /\ Cardinality(available) >= strategy.min_available_clients
    /\ rnd' = 1
    /\ pc' = "Sampling"
    /\ UNCHANGED <<args, model, strategy, parameters, available, sampled, dispatched,
                   scored, evaluated, roundError, metrics, aggregated>>

\* ClientManager.sample(min_count, fraction) with min_count = min_fit_clients
sample(min_count) ==
    IF Cardinality(available) < min_count
    THEN [ok |-> FALSE, sets |-> {}]
    ELSE [ok |-> TRUE,
          sets |-> {S \in SUBSET available :
                      Cardinality(S) = Max(min_count, CeilFraction(Cardinality(available)))}]

\* Sampling -> Dispatching, or the round is abandoned with InsufficientClients
SampleClients ==
    /\ pc = "Sampling"
    /\ LET s == sample(strategy.min_fit_clients)
       IN  IF s.ok
           THEN /\ sampled' \in s.sets
                /\ pc' = "Dispatching"
                /\ UNCHANGED roundError
           ELSE /\ roundError' = "InsufficientClients"
                /\ pc' = "RoundComplete"
                /\ UNCHANGED sampled
    /\ UNCHANGED <<args, model, strategy, rnd, parameters, available, dispatched,
                   scored, evaluated, metrics, aggregated>>

\* Dispatching -> Collecting: the global weights and the round's configs go out
Dispatch ==
    /\ pc = "Dispatching"
    /\ dispatched' = [clients |-> sampled, weights |-> parameters.weights,
                      fit |-> fit_config(rnd), eval |-> evaluate_config(rnd)]
    /\ pc' = "Collecting"
    /\ UNCHANGED <<args, model, strategy, rnd, parameters, available, sampled,
                   scored, evaluated, roundError, metrics, aggregated>>

\* Collecting -> Aggregating: some of the sampled participants answer
Collect ==
    /\ pc = "Collecting"
    /\ \E n \in 0..Cardinality(sampled) : metrics' \in [1..n -> RunReports]
    /\ pc' = "Aggregating"
    /\ UNCHANGED <<args, model, strategy, rnd, parameters, available, sampled, dispatched,
                   scored, evaluated, roundError, aggregated>>

\* Aggregating -> Evaluating: no answer abandons the round; otherwise
\* weighted_average aggregates the metrics and the round's weights replace
\* the global ones
Aggregate ==
    /\ pc = "Aggregating"
    /\ IF metrics = <<>>
       THEN /\ roundError' = "EmptyRoundResult"
            /\ pc' = "RoundComplete"
            /\ UNCHANGED <<aggregated, parameters>>
       ELSE /\ aggregated' = weighted_average(metrics)
            /\ IF aggregated'.kind = "raise"
               THEN pc' = "crashed" /\ UNCHANGED parameters
               ELSE pc' = "Evaluating" /\ parameters' = [weights |-> Weights(rnd), round |-> rnd]
            /\ UNCHANGED roundError
    /\ UNCHANGED <<args, model, strategy, rnd, available, sampled, dispatched,
                   scored, evaluated, metrics>>

\* Evaluating -> RoundComplete: eval_fn, the evaluate of get_eval_fn, on the
\* global weights; pot_eval's result is any of Confusions
Evaluate ==
    /\ pc = "Evaluating"
    /\ LET loaded == set_weights(model, parameters.weights)
       IN  IF ~loaded.ok
           THEN /\ evaluated' = Raise("RuntimeError")
                /\ pc' = "crashed"
                /\ UNCHANGED <<model, scored>>
           ELSE /\ model' = loaded.model
                /\ \E result \in Confusions, kind \in NumberKinds :
                       /\ scored' = [result |-> result, kind |-> kind]
                       /\ evaluated' = accuracy_of(result, kind)
                /\ pc' = IF evaluated'.kind = "raise" THEN "crashed" ELSE "RoundComplete"
    /\ UNCHANGED <<args, strategy, rnd, parameters, available, sampled, dispatched,
                   roundError, metrics, aggregated>>

\* RoundComplete -> Sampling of the next round, or Finished after the last
CompleteRound ==
    /\ pc = "RoundComplete"
    /\ IF rnd = args.rounds
       THEN pc' = "Finished" /\ UNCHANGED rnd
       ELSE pc' = "Sampling" /\ rnd' = rnd + 1
    /\ sampled' = {}
    /\ dispatched' = NoDispatch
    /\ metrics' = <<>>
    /\ aggregated' = NotCalled
    /\ scored' = NoScore
    /\ evaluated' = NotCalled
    /\ roundError' = ""
    /\ UNCHANGED <<args, model, strategy, parameters, available>>

Next ==
    \/ CheckArgs \/ LoadReference \/ BuildServer \/ StartServer
    \/ Connect \/ Disconnect
    \/ StartRound \/ SampleClients \/ Dispatch \/ Collect \/ Aggregate \/ Evaluate
    \/ CompleteRound

Spec == Init /\ [][Next]_vars

-----------------------------------------------------------------------------
(* Properties of weighted_average, checked under SpecAgg.                  *)

Called == aggregated # NotCalled

HasAccuracy(r) == "accuracy" \in DOMAIN r[2]

TotalExamples(ms, i) == LET S[j \in 0..i] == IF j = 0 THEN 0 ELSE S[j - 1] + ms[j][1] IN S[i]

\* ((n1 * a1 + n2 * a2) + ...) + ni * ai in float arithmetic
WeightedSum(ms, i) ==
    LET S[j \in 0..i] ==
            IF j = 0 THEN FZero ELSE FAdd(S[j - 1], FMulInt(ms[j][1], FloatOf(ms[j][2]["accuracy"])))
    IN  S[i]

LowestExp(ms) ==
    CHOOSE e \in {FloatOf(ms[i][2]["accuracy"]).e : i \in 1..Len(ms)} :
        \A i \in 1..Len(ms) : e <= FloatOf(ms[i][2]["accuracy"]).e

\* n1 * a1 + ... + ni * ai exactly, in units of 2^lo
ExactSum(ms, i, lo) ==
    LET S[j \in 0..i] ==
            IF j = 0 THEN <<>>
            ELSE BigAdd(S[j - 1],
                        MulSmall(ShiftLeft(FloatOf(ms[j][2]["accuracy"]).m,
                                           FloatOf(ms[j][2]["accuracy"]).e - lo), ms[j][1]))
    IN  S[i]

\* |f * n - x * 2^lo| <= 2^-40 * x * 2^lo: f is x * 2^lo / n up to rounding
NearQuotient(f, x, lo, n) ==
    LET b  == IF f.e < lo THEN f.e ELSE lo
        fn == ShiftLeft(MulSmall(f.m, n), f.e - b)
        xs == ShiftLeft(x, lo - b)
    IN  BigCmp(ShiftLeft(BigDist(fn, xs), 40), xs) <= 0

\* C2: for a non-empty list whose entries all have a positive example count
\* (and an accuracy), weighted_average returns
\* sum(num_examples_i * accuracy_i) / sum(num_examples_i): the float this
\* expression evaluates to, which is the exact quotient up to rounding.
C2_WeightedMean ==
    (Called /\ metrics # <<>>
       /\ \A i \in 1..Len(metrics) : metrics[i][1] > 0 /\ HasAccuracy(metrics[i]))
    => /\ aggregated.kind = "return"
       /\ aggregated.accuracy
            = FDivInt(WeightedSum(metrics, Len(metrics)), TotalExamples(metrics, Len(metrics)))
       /\ NearQuotient(aggregated.accuracy,
                       ExactSum(metrics, Len(metrics), LowestExp(metrics)),
                       LowestExp(metrics), TotalExamples(metrics, Len(metrics)))

\* (100, 0.8), (200, 0.9), (100, 0.7) has been aggregated to 0.825
C2_Witness ==
    /\ metrics = << <<100, Acc(Tenths(8))>>, <<200, Acc(Tenths(9))>>, <<100, Acc(Tenths(7))>> >>
    /\ aggregated = Return(FromRatio(825, 1000))

\* C4 as claimed: a list whose example counts add up to 0 makes
\* weighted_average fail with a division by zero.
C4_DivideByZero ==
    (Called /\ TotalExamples(metrics, Len(metrics)) = 0)
    => aggregated = Raise("ZeroDivisionError")

\* C4 amended: a list whose example counts add up to 0 never yields an
\* aggregated metric: weighted_average raises ZeroDivisionError when every
\* entry has the accuracy key (the empty list included), and KeyError, from
\* the lookup that precedes the division, when an entry lacks it.
C4_ZeroTotalFails ==
    (Called /\ TotalExamples(metrics, Len(metrics)) = 0)
    => /\ aggregated.kind = "raise"
       /\ aggregated.exc = IF \A i \in 1..Len(metrics) : HasAccuracy(metrics[i])
                           THEN "ZeroDivisionError" ELSE "KeyError"

\* reports with accuracies but no examples were aggregated: division by zero
C4_Witness ==
    /\ metrics # <<>>
    /\ TotalExamples(metrics, Len(metrics)) = 0
    /\ aggregated = Raise("ZeroDivisionError")

Perms(n) == {p \in [1..n -> 1..n] : \A i, j \in 1..n : p[i] = p[j] => i = j}

Permuted(ms, p) == [i \in 1..Len(ms) |-> ms[p[i]]]

\* C6 as claimed: every permutation of the list gives the same outcome, the
\* same accuracy or the same failure.
C6_OrderIndependent ==
    Called => \A p \in Perms(Len(metrics)) :
                  weighted_average(Permuted(metrics, p)) = aggregated

\* C6 amended: every permutation of the list fails in the same way or returns
\* an accuracy equal up to floating-point rounding (relative difference at
\* most 2^-40).
C6_OrderIndependentUpToRounding ==
    Called => \A p \in Perms(Len(metrics)) :
                  LET other == weighted_average(Permuted(metrics, p))
                  IN  /\ other.kind = aggregated.kind
                      /\ other.exc = aggregated.exc
                      /\ FClose(other.accuracy, aggregated.accuracy)

\* a list was aggregated of which some permutation gives another float
C6_Witness ==
    /\ aggregated.kind = "return"
    /\ \E p \in Perms(Len(metrics)) :
           LET other == weighted_average(Permuted(metrics, p))
           IN  other # aggregated /\ FClose(other.accuracy, aggregated.accuracy)

\* C8: when the accuracy key is present in some entries and absent from
\* others (and examples were reported), weighted_average does not fail.
C8_PartialKeysTolerated ==
    (/\ Called
     /\ TotalExamples(metrics, Len(metrics)) > 0
     /\ \E i \in 1..Len(metrics) : HasAccuracy(metrics[i])
     /\ \E i \in 1..Len(metrics) : ~HasAccuracy(metrics[i]))
    => aggregated.kind = "return"

-----------------------------------------------------------------------------
(* Properties of the run, checked under Spec.                              *)

\* C1: a round that has dispatched sent val_steps = 5 in rounds 1, 2 and 3
\* and val_steps = 10 from round 4 on, as evaluate_config gives for every
\* round index.
C1_ValSteps ==
    /\ dispatched # NoDispatch =>
         /\ rnd >= 1
         /\ rnd \in {1, 2, 3} => dispatched.eval.val_steps = 5
         /\ rnd >= 4 => dispatched.eval.val_steps = 10
    /\ \A r \in 1..args.rounds :
         evaluate_config(r) = [val_steps |-> IF r \in {1, 2, 3} THEN 5 ELSE 10]

\* round 5 has dispatched val_steps = 10
C1_Witness ==
    /\ pc = "Collecting"
    /\ rnd = 5
    /\ dispatched.eval.val_steps = 10

\* C3: with min_sample_size > min_num_clients main fails at its first step,
\* before the reference dataset and model are loaded, before the strategy
\* and server are built or started and before any round samples or
\* dispatches; with min_sample_size <= min_num_clients that check passes.
C3_FailFast ==
    /\ args.min_sample_size > args.min_num_clients =>
         /\ pc \in {"start", "failed"}
         /\ model = Unloaded
         /\ strategy = NoStrategy
         /\ rnd = 0
         /\ sampled = {}
         /\ dispatched = NoDispatch
    /\ args.min_sample_size <= args.min_num_clients => pc # "failed"

\* main has failed on min_sample_size = 3, min_num_clients = 2
C3_Witness ==
    /\ pc = "failed"
    /\ args.min_sample_size = 3
    /\ args.min_num_clients = 2

\* C5: sampling with min_count = min_sample_size gives at least
\* min_sample_size participants when that many are available and fails with
\* InsufficientClients otherwise; no round works with, or has dispatched
\* to, fewer than min_sample_size participants.
C5_SampleThreshold ==
    /\ pc = "Sampling" =>
         LET s == sample(strategy.min_fit_clients)
         IN  IF Cardinality(available) >= args.min_sample_size
             THEN /\ s.ok
                  /\ s.sets # {}
                  /\ \A S \in s.sets : Cardinality(S) >= args.min_sample_size
             ELSE ~s.ok
    /\ pc \in {"Dispatching", "Collecting", "Aggregating", "Evaluating"} =>
         /\ Cardinality(sampled) >= args.min_sample_size
         /\ sampled \subseteq available
    /\ dispatched # NoDispatch => Cardinality(dispatched.clients) >= args.min_sample_size
    /\ roundError = "InsufficientClients" =>
         /\ Cardinality(available) < args.min_sample_size
         /\ sampled = {}
         /\ dispatched = NoDispatch

\* a round has dispatched to 3 participants, min_sample_size being 3
C5_Witness ==
    /\ pc = "Collecting"
    /\ args.min_sample_size = 3
    /\ Cardinality(dispatched.clients) = 3

\* C7: when pot_eval's counts add up to 0 the evaluate function fails and
\* returns nothing; otherwise it returns the accuracy (TP+TN)/(TP+TN+FP+FN).
C7_DegenerateEvaluation ==
    scored # NoScore =>
        LET r == scored.result
        IN  IF r.TP + r.TN + r.FP + r.FN = 0
            THEN evaluated.kind = "raise"
            ELSE evaluated = Return(FromRatio(r.TP + r.TN, r.TP + r.TN + r.FP + r.FN))

\* C9: when the evaluate function raises in a round, the round still
\* completes with the newly aggregated weights as the global model, and the
\* run goes on.
C9_EvaluationFailureKeepsRunning ==
    evaluated.kind = "raise" =>
        /\ pc = "RoundComplete"
        /\ parameters = [weights |-> Weights(rnd), round |-> rnd]

\* C10: once a call of the evaluate function has returned, the reference
\* model holds the parameters it had before, those load_model gave it, never
\* a round's global parameters.
C10_ReferenceModelRestored ==
    (model.loaded /\ pc \notin {"Evaluating", "crashed"}) => model.state_dict = Weights(0)

=============================================================================
